---------------------------- MODULE Spec2Model ----------------------------
(***************************************************************************)
(* Mentor Tracker (src/app.py): the Google-Sheets backed tracker of weekly *)
(* mentoring cycles.                                                       *)
(*                                                                         *)
(* State: the remote primary sheet and History sheet, st.session_state.df  *)
(* (the Local Mirror), the st.cache_data entry of load_data_from_cloud,    *)
(* and the calendar day.  One action per script run of the Streamlit       *)
(* script: a run handles one widget event and ends when the script ends,   *)
(* when the handler calls st.rerun() (the run that redraws is the next     *)
(* step), or when an exception leaves it.                                  *)
(*                                                                         *)
(* A date cell is a day number (the ISO string of that day; day 0 is a     *)
(* Monday, so weekday(d) = d % 7 as date.weekday()) or BadDate (any string *)
(* strptime("%Y-%m-%d") rejects).  Sheet row r holds data row r - 1 (row 1 *)
(* is the header), so DataFrame index idx is sheet row idx + 2 and         *)
(* position idx + 1 of the sequences below.                                *)
(*                                                                         *)
(* A remote call may fail: every handler takes n, the number of its remote *)
(* writes that succeed before the first failure.                           *)
(***************************************************************************)
EXTENDS Integers, Sequences, FiniteSets, TLC

VARIABLES
    remote,     \* primary sheet (sheet1): sequence of data rows
    hist,       \* History sheet: sequence of appended rows
    hasDf,      \* 'df' in st.session_state
    df,         \* st.session_state.df
    df_hist,    \* st.session_state.df_hist
    cache,      \* st.cache_data entry of load_data_from_cloud, or NoCache
    today,      \* datetime.now().date()
    ops,        \* events so far in the session
    alerts,     \* the alerts list of the last script run that built one
    pc,         \* "idle": a run has ended and the page waits for an event;
                \* "rerun": st.rerun() was called (or the session has just
                \* opened) and the next run has not started;
                \* "sleep": the batch button's handler is in time.sleep(2)
    page,       \* the number of rows whose widgets the browser shows
    client,     \* st.cache_resource holds the client of get_google_client
    op          \* the last handler run: its name, target, remote writes done, outcome

vars == <<remote, hist, hasDf, df, df_hist, cache, today, ops, alerts, pc, page,
          client, op>>

----------------------------------------------------------------------------
(* Bound of the model: the events (handler runs, midnights, cache expiries) of
   one session *)

MaxOps == 2

(* Program constants *)

CycleDays == 7
HeaderOffset == 2
ColLast == 3
ColNext == 4
ColP1 == 6
BadDate == -1

NoCache == [none |-> TRUE]

(* Inputs: what the forms' widgets return *)

Names == {"z"}
Links == {""}
ReportDays == {"Monday"}
\* <<last session, next session>> as the two date_input widgets return them
InputDates == {<<7, 14>>, <<14, 7>>}
StartDay == 7

----------------------------------------------------------------------------
(* Conversions *)

\* str.upper() on the cell strings of the model
Upper(s) ==
    CASE s = "true" -> "TRUE"
      [] s = "True" -> "TRUE"
      [] s = "false" -> "FALSE"
      [] s = "False" -> "FALSE"
      [] OTHER -> s

\* str(row[col]).upper() == 'TRUE'
IsTrue(s) == Upper(s) = "TRUE"

\* str(b) of a Python bool
StrBool(b) == IF b THEN "True" ELSE "False"

\* mutant of Parses: every cell is taken for a date
ParsesAnything(cell) == cell = cell

\* datetime.strptime(str(cell), "%Y-%m-%d") succeeds
Parses(cell) == cell # BadDate

\* column name of checkpoint k and its sheet column (the pairs the checkboxes pass)
CheckpointCol(k) ==
    CASE k = 1 -> "P1_Sent_Encouragement"
      [] k = 2 -> "P2_Received_Report"
      [] k = 3 -> "P3_Sent_Prework"

SheetCol(k) == ColP1 + k - 1

\* the field a sheet column holds (header of sheet1)
ColField(c) ==
    CASE c = 1 -> "Name"
      [] c = 2 -> "Chat_Link"
      [] c = 3 -> "Last_Session_Date"
      [] c = 4 -> "Next_Session_Date"
      [] c = 5 -> "Report_Day"
      [] c = 6 -> "P1_Sent_Encouragement"
      [] c = 7 -> "P2_Received_Report"
      [] c = 8 -> "P3_Sent_Prework"

NewRow(name, link, last, next, rep) ==
    [Name |-> name, Chat_Link |-> link, Last_Session_Date |-> last,
     Next_Session_Date |-> next, Report_Day |-> rep,
     P1_Sent_Encouragement |-> "FALSE", P2_Received_Report |-> "FALSE",
     P3_Sent_Prework |-> "FALSE"]

\* a row together with the mentee it stands for; mentee is no cell of the
\* sheet, it is carried along so that a row can be followed through loads,
\* edits and deletions
Tagged(row, m) == [mentee |-> m] @@ row

----------------------------------------------------------------------------
(* The remote store: one write, and a sequence of writes *)

CellWrite(r, c, v) == [kind |-> "cell", r |-> r, c |-> c, v |-> v]
DateWrite(r, c, d) == [kind |-> "date", r |-> r, c |-> c, d |-> d]
HistWrite(row) == [kind |-> "hist", row |-> row]

\* mutant of ApplyWrite: the History sheet keeps only the row just logged
ApplyWriteOverwrite(s, w) ==
    CASE w.kind = "cell" ->
            [s EXCEPT !.main[w.r - 1][ColField(w.c)] = w.v]
      [] w.kind = "date" ->
            [s EXCEPT !.main[w.r - 1][ColField(w.c)] = w.d]
      [] w.kind = "hist" ->
            [s EXCEPT !.hist = << w.row >>]

\* main_sheet.update_cell / hist_sheet.append_row applied to the two sheets
ApplyWrite(s, w) ==
    CASE w.kind = "cell" ->
            [s EXCEPT !.main[w.r - 1][ColField(w.c)] = w.v]
      [] w.kind = "date" ->
            [s EXCEPT !.main[w.r - 1][ColField(w.c)] = w.d]
      [] w.kind = "hist" ->
            [s EXCEPT !.hist = Append(s.hist, w.row)]

RECURSIVE ApplyWrites(_, _)
ApplyWrites(s, ws) ==
    IF ws = <<>> THEN s
    ELSE ApplyWrites(ApplyWrite(s, Head(ws)), Tail(ws))

Sheets == [main |-> remote, hist |-> hist]

\* the first n writes of ws reach the store; the call after them raises
Done(ws, n) == SubSeq(ws, 1, n)


----------------------------------------------------------------------------
(* get_day_number and the alert loop of main *)

\* str(day_name).strip().lower() on the cell strings of the model
StripLower(s) ==
    CASE s = "Monday" -> "monday"
      [] s = "Tuesday" -> "tuesday"
      [] s = " tuesday " -> "tuesday"
      [] s = "Wednesday" -> "wednesday"
      [] s = "Thursday" -> "thursday"
      [] s = "Friday" -> "friday"
      [] s = "FRIDAY" -> "friday"
      [] s = "Saturday" -> "saturday"
      [] s = "Sunday" -> "sunday"
      [] OTHER -> s

days == << "monday", "tuesday", "wednesday", "thursday", "friday", "saturday", "sunday" >>

\* mutant of get_day_number: a name that is no weekday counts as Sunday
get_day_number_sunday(day_name) ==
    LET clean == StripLower(day_name)
    IN  IF \E j \in 1..Len(days) : days[j] = clean
        THEN (CHOOSE j \in 1..Len(days) : days[j] = clean) - 1
        ELSE 6

\* days.index(clean) if clean in days else 0
get_day_number(day_name) ==
    LET clean == StripLower(day_name)
    IN  IF \E j \in 1..Len(days) : days[j] = clean
        THEN (CHOOSE j \in 1..Len(days) : days[j] = clean) - 1
        ELSE 0

\* date.weekday(): day 0 of the model is a Monday
weekday(d) == d % 7

\* mutant of DaysUntil: a session on the report weekday is due the same day
DaysUntilSameDay(last_sess, report_day) ==
    (get_day_number(report_day) - weekday(last_sess)) % 7

DaysUntil(last_sess, report_day) ==
    LET days_until == (get_day_number(report_day) - weekday(last_sess)) % 7
    IN  IF days_until = 0 THEN 7 ELSE days_until

\* report_due of the alert loop
ReportDue(last_sess, report_day) == last_sess + DaysUntil(last_sess, report_day)

Alert(cp, name, day) == [cp |-> cp, name |-> name, day |-> day]

\* mutant of RowAlerts: the report counts as overdue on its due day
RowAlertsDueDay(row, now) ==
    IF ~(Parses(row.Last_Session_Date) /\ Parses(row.Next_Session_Date))
    THEN <<>>
    ELSE LET last_sess == row.Last_Session_Date
             next_sess == row.Next_Session_Date
             p1 == IsTrue(row.P1_Sent_Encouragement)
             p2 == IsTrue(row.P2_Received_Report)
             p3 == IsTrue(row.P3_Sent_Prework)
             report_due == ReportDue(last_sess, row.Report_Day)
         IN  (IF ~p1 /\ now >= last_sess + 1
              THEN << Alert(1, row.Name, last_sess + 1) >> ELSE <<>>)
             \o (IF ~p2 /\ now >= report_due
                 THEN << Alert(2, row.Name, report_due) >> ELSE <<>>)
             \o (IF ~p3 /\ now >= next_sess - 1
                 THEN << Alert(3, row.Name, next_sess) >> ELSE <<>>)

\* the loop body: the alerts one row appends
RowAlerts(row, now) ==
    IF ~(Parses(row.Last_Session_Date) /\ Parses(row.Next_Session_Date))
    THEN <<>>
    ELSE LET last_sess == row.Last_Session_Date
             next_sess == row.Next_Session_Date
             p1 == IsTrue(row.P1_Sent_Encouragement)
             p2 == IsTrue(row.P2_Received_Report)
             p3 == IsTrue(row.P3_Sent_Prework)
             report_due == ReportDue(last_sess, row.Report_Day)
         IN  (IF ~p1 /\ now >= last_sess + 1
              THEN << Alert(1, row.Name, last_sess + 1) >> ELSE <<>>)
             \o (IF ~p2 /\ now > report_due
                 THEN << Alert(2, row.Name, report_due) >> ELSE <<>>)
             \o (IF ~p3 /\ now >= next_sess - 1
                 THEN << Alert(3, row.Name, next_sess) >> ELSE <<>>)

\* the alerts list after the loop over st.session_state.df
RECURSIVE Alerts(_, _)
Alerts(d, now) ==
    IF d = <<>> THEN <<>>
    ELSE RowAlerts(Head(d), now) \o Alerts(Tail(d), now)

----------------------------------------------------------------------------
(* load_data_from_cloud and the load guard of main *)

ReadOutcomes == {"ok", "hist_fail", "fail"}

\* the body of load_data_from_cloud: both sheets read, or the fallbacks
ReadCloud(main, h, rd) ==
    CASE rd = "ok" -> [df |-> main, df_hist |-> h]
      [] rd = "hist_fail" -> [df |-> main, df_hist |-> <<>>]
      [] rd = "fail" -> [df |-> <<>>, df_hist |-> <<>>]

\* @st.cache_data: the cached value while the entry lives, else the body's
load_data_from_cloud(c, main, h, rd) ==
    IF c # NoCache THEN c ELSE ReadCloud(main, h, rd)

OpRec(name, idx, k, writes, outcome, proc, skip) ==
    [name |-> name, idx |-> idx, k |-> k, writes |-> writes,
     outcome |-> outcome, proc |-> proc, skip |-> skip]

\* the history tab: three boolean columns are added in place to
\* st.session_state.df_hist (the cache entry keeps its own copy)
HistTab(dfh) ==
    [j \in 1..Len(dfh) |->
        [Encouragement |-> IsTrue(dfh[j].P1_Encouragement),
         Report |-> IsTrue(dfh[j].P2_Report),
         Prework |-> IsTrue(dfh[j].P3_Prework)] @@ dfh[j]]

\* the outcomes of the load guard: those of the reads, and "stop": the
\* loader's body runs and get_google_client raises, reports the error and
\* calls st.stop() (no client is kept, so this can only be before the first
\* client was made)
LoadOutcomes == ReadOutcomes \cup {"stop"}

\* a script run that finds 'df' not in st.session_state: the first run of the
\* session and the run after an add or a delete; it loads and draws the page,
\* or ends at st.stop() inside the load guard with 'df' still absent
Main(rd) ==
    /\ ~hasDf
    /\ pc \in {"idle", "rerun"}
    /\ IF rd = "stop"
       THEN /\ ~client
            /\ cache = NoCache
            /\ page' = 0
            /\ op' = OpRec("main", -1, 0, <<>>, "stopped", 0, 0)
            /\ UNCHANGED <<hasDf, df, df_hist, cache, alerts, client>>
       ELSE LET got == load_data_from_cloud(cache, remote, hist, rd)
            IN  /\ df' = got.df
                /\ df_hist' = HistTab(got.df_hist)
                /\ cache' = got
                /\ alerts' = Alerts(got.df, today)
                /\ page' = Len(got.df)
                /\ hasDf' = TRUE
                /\ client' = (client \/ cache = NoCache)
                /\ op' = OpRec("main", -1, 0, <<>>, "ok", 0, 0)
    /\ pc' = "idle"
    /\ UNCHANGED <<remote, hist, today, ops>>

----------------------------------------------------------------------------
(* toggle_status *)

\* mutant of ToggledValue: the cell is compared as it is stored
ToggledValueExact(cell) == IF cell = "TRUE" THEN "FALSE" ELSE "TRUE"

\* new_val of toggle_status
ToggledValue(cell) == IF Upper(cell) = "TRUE" THEN "FALSE" ELSE "TRUE"

ToggleLocal(d, idx, k) ==
    [d EXCEPT ![idx + 1][CheckpointCol(k)] = ToggledValue(d[idx + 1][CheckpointCol(k)])]

ToggleWrites(d, idx, k) ==
    << CellWrite(idx + HeaderOffset, SheetCol(k),
                 ToggledValue(d[idx + 1][CheckpointCol(k)])) >>

\* the on_change callback of a checkbox of the page in the browser; it runs
\* at the start of a script run, before the load guard, and the run then
\* draws the page.  When the row is not in st.session_state.df (the Local
\* Mirror was deleted by an add or a delete, or reloaded shorter, and the
\* page not yet drawn again) line 49 raises and the run ends there.
toggle_status(idx, k, n) ==
    /\ pc \in {"idle", "rerun"}
    /\ ops < MaxOps
    /\ ops' = ops + 1
    /\ idx \in 0..(page - 1)
    /\ pc' = "idle"
    /\ IF hasDf /\ idx < Len(df)
       THEN LET ws == ToggleWrites(df, idx, k)
                s == ApplyWrites(Sheets, Done(ws, n))
            IN  /\ n \in 0..Len(ws)
                /\ df' = ToggleLocal(df, idx, k)
                /\ alerts' = Alerts(ToggleLocal(df, idx, k), today)
                /\ remote' = s.main
                /\ hist' = s.hist
                /\ df_hist' = HistTab(df_hist)
                /\ page' = Len(df)
                /\ op' = OpRec("toggle", idx, k, Done(ws, n),
                               IF n = Len(ws) THEN "ok" ELSE "warned", 0, 0)
       ELSE /\ n = 0
            /\ op' = OpRec("toggle", idx, k, <<>>, "crashed", 0, 0)
            /\ UNCHANGED <<remote, hist, df, df_hist, alerts, page>>
    /\ UNCHANGED <<hasDf, cache, today, client>>

----------------------------------------------------------------------------
(* update_missionary_details *)

EditLocal(d, idx, name, link, last, next, rep) ==
    [d EXCEPT ![idx + 1].Name = name,
              ![idx + 1].Chat_Link = link,
              ![idx + 1].Last_Session_Date = last,
              ![idx + 1].Next_Session_Date = next,
              ![idx + 1].Report_Day = rep]

EditWrites(idx, name, link, last, next, rep) ==
    LET r == idx + HeaderOffset
    IN  << CellWrite(r, 1, name), CellWrite(r, 2, link),
           DateWrite(r, ColLast, last), DateWrite(r, ColNext, next),
           CellWrite(r, 5, rep) >>

\* the run of Save Edits: the alert loop runs on the rows as they were, then
\* the form's handler edits them and calls st.rerun()
update_missionary_details(idx, name, link, last, next, rep, n) ==
    /\ hasDf
    /\ pc = "idle"
    /\ ops < MaxOps
    /\ ops' = ops + 1
    /\ idx \in 0..(Len(df) - 1)
    /\ LET ws == EditWrites(idx, name, link, last, next, rep)
           s == ApplyWrites(Sheets, Done(ws, n))
       IN  /\ n \in 0..Len(ws)
           /\ df' = EditLocal(df, idx, name, link, last, next, rep)
           /\ alerts' = Alerts(df, today)
           /\ remote' = s.main
           /\ hist' = s.hist
           /\ op' = OpRec("edit", idx, 0, Done(ws, n),
                          IF n = Len(ws) THEN "ok" ELSE "warned", 0, 0)
    /\ pc' = "rerun"
    /\ UNCHANGED <<hasDf, df_hist, cache, today, page, client>>

----------------------------------------------------------------------------
(* log_and_reset, called by the Finish Cycle popover *)

HistRow(date, name, p1, p2, p3) ==
    [Date_Logged |-> date, Name |-> name, P1_Encouragement |-> p1,
     P2_Report |-> p2, P3_Prework |-> p3]

\* mutant of LogAndResetWrites: the two dates written to each other's column
LogAndResetWritesSwapped(idx, name, p1, p2, p3, new_last, new_next, now) ==
    LET r == idx + HeaderOffset
    IN  << HistWrite(HistRow(now, name, StrBool(p1), StrBool(p2), StrBool(p3))),
           DateWrite(r, ColLast, new_next),
           DateWrite(r, ColNext, new_last),
           CellWrite(r, SheetCol(1), "FALSE"),
           CellWrite(r, SheetCol(2), "FALSE"),
           CellWrite(r, SheetCol(3), "FALSE") >>

\* the remote writes of log_and_reset, in the order the code issues them
LogAndResetWrites(idx, name, p1, p2, p3, new_last, new_next, now) ==
    LET r == idx + HeaderOffset
    IN  << HistWrite(HistRow(now, name, StrBool(p1), StrBool(p2), StrBool(p3))),
           DateWrite(r, ColLast, new_last),
           DateWrite(r, ColNext, new_next),
           CellWrite(r, SheetCol(1), "FALSE"),
           CellWrite(r, SheetCol(2), "FALSE"),
           CellWrite(r, SheetCol(3), "FALSE") >>

\* st.session_state.df after log_and_reset
LogAndResetLocal(d, idx, new_last, new_next) == d

\* the run of the popover's button: the alert loop, then log_and_reset with
\* the arguments read from the rendered row, then st.rerun(); an exception of
\* a remote call ends the run instead.  The run reads the clock twice, for
\* the alert loop and for log_date: mid says midnight passed between the two.
log_and_reset(idx, new_last, new_next, n, mid) ==
    /\ hasDf
    /\ pc = "idle"
    /\ ops < MaxOps
    /\ ops' = ops + 1
    /\ idx \in 0..(Len(df) - 1)
    /\ LET row == df[idx + 1]
           ws == LogAndResetWrites(idx, row.Name,
                                   IsTrue(row.P1_Sent_Encouragement),
                                   IsTrue(row.P2_Received_Report),
                                   IsTrue(row.P3_Sent_Prework),
                                   new_last, new_next, today')
           s == ApplyWrites(Sheets, Done(ws, n))
       IN  /\ today' = IF mid THEN today + 1 ELSE today
           /\ n \in 0..Len(ws)
           /\ remote' = s.main
           /\ hist' = s.hist
           /\ df' = LogAndResetLocal(df, idx, new_last, new_next)
           /\ alerts' = Alerts(LogAndResetLocal(df, idx, new_last, new_next), today)
           /\ cache' = IF n = Len(ws) THEN NoCache ELSE cache
           /\ pc' = IF n = Len(ws) THEN "rerun" ELSE "idle"
           /\ op' = OpRec("finish", idx, 0, Done(ws, n),
                          IF n = Len(ws) THEN "ok" ELSE "raised", 0, 0)
    /\ UNCHANGED <<hasDf, df_hist, page, client>>

----------------------------------------------------------------------------
(* process_universal_cycle, called by the Run Batch Processor button *)

\* mutant of BatchDue: a session held today does not close the cycle yet
BatchDueLate(row, now) ==
    /\ Parses(row.Next_Session_Date)
    /\ now > row.Next_Session_Date

\* the loop's test of one row: the date parses and not (today < next_sess_date)
BatchDue(row, now) ==
    /\ Parses(row.Next_Session_Date)
    /\ ~(now < row.Next_Session_Date)

\* mutant of BatchRowWrites: the next session is not moved on
BatchRowWritesSameNext(i, row) ==
    LET r == i + HeaderOffset
        next_sess_date == row.Next_Session_Date
    IN  << DateWrite(r, ColLast, next_sess_date),
           DateWrite(r, ColNext, next_sess_date),
           CellWrite(r, SheetCol(1), "FALSE"),
           CellWrite(r, SheetCol(2), "FALSE"),
           CellWrite(r, SheetCol(3), "FALSE") >>

\* the update_cell calls of the loop body for DataFrame index i
BatchRowWrites(i, row) ==
    LET r == i + HeaderOffset
        next_sess_date == row.Next_Session_Date
    IN  << DateWrite(r, ColLast, next_sess_date),
           DateWrite(r, ColNext, next_sess_date + CycleDays),
           CellWrite(r, SheetCol(1), "FALSE"),
           CellWrite(r, SheetCol(2), "FALSE"),
           CellWrite(r, SheetCol(3), "FALSE") >>

\* the loop over df.iterrows() from index i on: its update_cell calls
RECURSIVE BatchCellWrites(_, _, _)
BatchCellWrites(d, i, now) ==
    IF i >= Len(d) THEN <<>>
    ELSE (IF BatchDue(d[i + 1], now) THEN BatchRowWrites(i, d[i + 1]) ELSE <<>>)
         \o BatchCellWrites(d, i + 1, now)

\* log_rows as the loop leaves it
RECURSIVE BatchLogRows(_, _, _)
BatchLogRows(d, i, now) ==
    IF i >= Len(d) THEN <<>>
    ELSE (IF BatchDue(d[i + 1], now)
          THEN << HistRow(now, d[i + 1].Name,
                          d[i + 1].P1_Sent_Encouragement,
                          d[i + 1].P2_Received_Report,
                          d[i + 1].P3_Sent_Prework) >>
          ELSE <<>>)
         \o BatchLogRows(d, i + 1, now)

\* hist_sheet.append_row for each of log_rows
RECURSIVE HistWrites(_)
HistWrites(rows) ==
    IF rows = <<>> THEN <<>>
    ELSE <<HistWrite(Head(rows))>> \o HistWrites(Tail(rows))

\* the remote writes of process_universal_cycle, in the order the code issues them
BatchWrites(d, now) ==
    BatchCellWrites(d, 0, now) \o HistWrites(BatchLogRows(d, 0, now))

RECURSIVE ProcessedCount(_, _, _)
ProcessedCount(d, i, now) ==
    IF i >= Len(d) THEN 0
    ELSE (IF BatchDue(d[i + 1], now) THEN 1 ELSE 0) + ProcessedCount(d, i + 1, now)

\* mutant of SkippedCount: a row whose date does not parse is not counted
RECURSIVE SkippedCountParsed(_, _, _)
SkippedCountParsed(d, i, now) ==
    IF i >= Len(d) THEN 0
    ELSE (IF Parses(d[i + 1].Next_Session_Date) /\ ~BatchDue(d[i + 1], now)
          THEN 1 ELSE 0)
         + SkippedCountParsed(d, i + 1, now)

RECURSIVE SkippedCount(_, _, _)
SkippedCount(d, i, now) ==
    IF i >= Len(d) THEN 0
    ELSE (IF BatchDue(d[i + 1], now) THEN 0 ELSE 1) + SkippedCount(d, i + 1, now)

\* st.session_state.df after process_universal_cycle
BatchLocal(d, now) == d

\* the run of the Run Batch Processor button up to time.sleep(2): the call
\* returns and the handler sleeps, or an exception of a remote call ends the
\* run; the button is in the sidebar, before the alert loop.  n = -1: one of
\* the two client.open calls ahead of the loop raised.
process_universal_cycle(n) ==
    /\ hasDf
    /\ pc = "idle"
    /\ ops < MaxOps
    /\ ops' = ops + 1
    /\ LET ws == BatchWrites(df, today)
           done == IF n < 0 THEN <<>> ELSE Done(ws, n)
           s == ApplyWrites(Sheets, done)
           returned == n = Len(ws)
       IN  /\ n \in -1..Len(ws)
           /\ remote' = s.main
           /\ hist' = s.hist
           /\ df' = BatchLocal(df, today)
           /\ pc' = IF returned THEN "sleep" ELSE "idle"
           /\ op' = OpRec("batch", -1, 0, done,
                          IF returned THEN "ok" ELSE "raised",
                          IF returned THEN ProcessedCount(df, 0, today) ELSE 0,
                          IF returned THEN SkippedCount(df, 0, today) ELSE 0)
    /\ UNCHANGED <<hasDf, df_hist, cache, today, alerts, page, client>>

\* the handler after time.sleep(2): st.cache_data.clear(); st.rerun()
BatchRerun ==
    /\ pc = "sleep"
    /\ cache' = NoCache
    /\ pc' = "rerun"
    /\ UNCHANGED <<remote, hist, hasDf, df, df_hist, today, ops, alerts, page, client, op>>

----------------------------------------------------------------------------
(* Add New Missionary, Delete User, Force Refresh *)

\* ws.delete_rows(r)
DeleteRow(main, r) ==
    SubSeq(main, 1, r - 2) \o SubSeq(main, r, Len(main))

\* the mentee of the first row added in a session (the sheet starts with
\* mentees 1 and 2); the row added at event ops stands for FirstAdded + ops
FirstAdded == 3

\* the run of the add form's submit: the row is appended, the cache cleared
\* and 'df' deleted from st.session_state, then st.rerun(); the form is above
\* the alert loop.  An exception of append_row ends the run.
AddMissionary(name, link, last, next, rep, ok) ==
    /\ hasDf
    /\ pc = "idle"
    /\ ops < MaxOps
    /\ ops' = ops + 1
    /\ IF ok
       THEN /\ remote' = Append(remote, Tagged(NewRow(name, link, last, next, rep),
                                               FirstAdded + ops))
            /\ cache' = NoCache
            /\ hasDf' = FALSE
            /\ df' = <<>>
            /\ pc' = "rerun"
            /\ op' = OpRec("add", -1, 0, <<>>, "ok", 0, 0)
       ELSE /\ UNCHANGED <<remote, hasDf, df, cache, pc>>
            /\ op' = OpRec("add", -1, 0, <<>>, "raised", 0, 0)
    /\ UNCHANGED <<hist, df_hist, today, alerts, page, client>>

\* mutant of DeleteUser: the row is deleted and the Local Mirror kept as it is
DeleteUserNoReload(idx, ok) ==
    /\ hasDf
    /\ pc = "idle"
    /\ ops < MaxOps
    /\ ops' = ops + 1
    /\ idx \in 0..(Len(df) - 1)
    /\ remote' = IF ok THEN DeleteRow(remote, idx + HeaderOffset) ELSE remote
    /\ cache' = IF ok THEN NoCache ELSE cache
    /\ pc' = IF ok THEN "rerun" ELSE "idle"
    /\ alerts' = Alerts(df, today)
    /\ op' = OpRec("delete", idx, 0, <<>>, IF ok THEN "ok" ELSE "raised", 0, 0)
    /\ UNCHANGED <<hist, hasDf, today, df, df_hist, page, client>>

\* the run of a Delete User button: the alert loop, then the row is deleted,
\* 'df' deleted from st.session_state and the cache cleared, then st.rerun().
\* An exception of delete_rows ends the run.
DeleteUser(idx, ok) ==
    /\ hasDf
    /\ pc = "idle"
    /\ ops < MaxOps
    /\ ops' = ops + 1
    /\ idx \in 0..(Len(df) - 1)
    /\ alerts' = Alerts(df, today)
    /\ IF ok
       THEN /\ remote' = DeleteRow(remote, idx + HeaderOffset)
            /\ cache' = NoCache
            /\ hasDf' = FALSE
            /\ df' = <<>>
            /\ pc' = "rerun"
            /\ op' = OpRec("delete", idx, 0, <<>>, "ok", 0, 0)
       ELSE /\ UNCHANGED <<remote, hasDf, df, cache, pc>>
            /\ op' = OpRec("delete", idx, 0, <<>>, "raised", 0, 0)
    /\ UNCHANGED <<hist, df_hist, today, page, client>>

\* mutant of ForceRefresh: the cache entry is not cleared before the load
ForceRefreshCached(rd) ==
    /\ hasDf
    /\ pc = "idle"
    /\ ops < MaxOps
    /\ ops' = ops + 1
    /\ LET got == load_data_from_cloud(cache, remote, hist, rd)
       IN  /\ df' = got.df
           /\ df_hist' = got.df_hist
           /\ cache' = got
    /\ pc' = "rerun"
    /\ op' = OpRec("refresh", -1, 0, <<>>, "ok", 0, 0)
    /\ UNCHANGED <<remote, hist, hasDf, today, alerts, page, client>>

\* the run of the Force Refresh button: the cache is cleared, both frames are
\* loaded anew, then st.rerun(); the button is above the alert loop
ForceRefresh(rd) ==
    /\ hasDf
    /\ pc = "idle"
    /\ ops < MaxOps
    /\ ops' = ops + 1
    /\ LET got == load_data_from_cloud(NoCache, remote, hist, rd)
       IN  /\ df' = got.df
           /\ df_hist' = got.df_hist
           /\ cache' = got
    /\ pc' = "rerun"
    /\ op' = OpRec("refresh", -1, 0, <<>>, "ok", 0, 0)
    /\ UNCHANGED <<remote, hist, hasDf, today, alerts, page, client>>

----------------------------------------------------------------------------
(* Time *)

\* the 60 s time-to-live of the cache entry runs out
CacheExpire ==
    /\ ops < MaxOps
    /\ ops' = ops + 1
    /\ cache # NoCache
    /\ cache' = NoCache
    /\ op' = OpRec("expire", -1, 0, <<>>, "ok", 0, 0)
    /\ UNCHANGED <<remote, hist, hasDf, df, df_hist, today, alerts, pc, page, client>>

\* midnight passes: datetime.now().date() moves on; the cache entry has its
\* own clock
NewDay ==
    /\ ops < MaxOps
    /\ ops' = ops + 1
    /\ today' = today + 1
    /\ op' = OpRec("newday", -1, 0, <<>>, "ok", 0, 0)
    /\ UNCHANGED <<remote, hist, hasDf, df, df_hist, cache, alerts, pc, page, client>>

\* a script run with no widget event: the page is drawn again.  It is the
\* run a handler asked for with st.rerun(), and then no event of its own, or
\* a run the browser asks for.
Rerun ==
    /\ hasDf
    /\ pc \in {"idle", "rerun"}
    /\ IF pc = "rerun"
       THEN UNCHANGED <<ops, op>>
       ELSE /\ ops < MaxOps
            /\ ops' = ops + 1
            /\ op' = OpRec("rerun", -1, 0, <<>>, "ok", 0, 0)
    /\ alerts' = Alerts(df, today)
    /\ df_hist' = HistTab(df_hist)
    /\ page' = Len(df)
    /\ pc' = "idle"
    /\ UNCHANGED <<remote, hist, hasDf, df, cache, today, client>>

----------------------------------------------------------------------------
(* The session *)

\* the sheet when the session starts: two rows, their Next_Session_Date taken
\* in turn from today (due), a week ahead (not due) and an unparsable cell
InitNext(j) ==
    CASE j % 3 = 0 -> StartDay
      [] j % 3 = 1 -> StartDay + CycleDays
      [] j % 3 = 2 -> BadDate

InitTables ==
    { << Tagged([NewRow("a", "", StartDay - CycleDays, InitNext(shift), "Monday")
                    EXCEPT !.P1_Sent_Encouragement = "TRUE"], 1),
         Tagged([NewRow("b", "", StartDay, InitNext(shift + 1), "Monday")
                    EXCEPT !.P2_Received_Report = "true",
                           !.P3_Sent_Prework = ""], 2) >> : shift \in 0..2 }

Init ==
    /\ remote \in InitTables
    /\ hist = <<>>
    /\ hasDf = FALSE
    /\ df = <<>>
    /\ df_hist = <<>>
    /\ cache = NoCache
    /\ today = StartDay
    /\ ops = 0
    /\ alerts = <<>>
    /\ pc = "rerun"
    /\ page = 0
    /\ client = FALSE
    /\ op = OpRec("init", -1, 0, <<>>, "ok", 0, 0)

Next ==
    \/ \E rd \in LoadOutcomes : Main(rd)
    \/ \E idx \in 0..(page - 1), k \in 1..3, n \in 0..1 : toggle_status(idx, k, n)
    \/ \E idx \in 0..(Len(df) - 1), name \in Names, link \in Links,
          d \in InputDates, rep \in ReportDays, n \in 0..5 :
            update_missionary_details(idx, name, link, d[1], d[2], rep, n)
    \/ \E idx \in 0..(Len(df) - 1), d \in InputDates, n \in 0..6,
          mid \in BOOLEAN :
            log_and_reset(idx, d[1], d[2], n, mid)
    \/ \E n \in -1..(6 * Len(df)) : process_universal_cycle(n)
    \/ BatchRerun
    \/ \E name \in Names, link \in Links, d \in InputDates,
          rep \in ReportDays, ok \in BOOLEAN :
            AddMissionary(name, link, d[1], d[2], rep, ok)
    \/ \E idx \in 0..(Len(df) - 1), ok \in BOOLEAN :
            DeleteUser(idx, ok)
    \/ \E rd \in ReadOutcomes : ForceRefresh(rd)
    \/ CacheExpire
    \/ NewDay
    \/ Rerun

Spec == Init /\ [][Next]_vars

----------------------------------------------------------------------------
(* Properties *)

\* a write that sets a checkpoint cell of sheet1 to FALSE
IsReset(w) ==
    /\ w.kind = "cell"
    /\ w.c \in {SheetCol(1), SheetCol(2), SheetCol(3)}
    /\ w.v = "FALSE"

\* a History row appended for the mentee the Local Mirror holds at sheet row r
IsHistoryFor(w, r) ==
    /\ w.kind = "hist"
    /\ w.row.Name = df[r - 1].Name

\* the last handler was a finish-cycle transition (single or batch)
FinishOp == op.name \in {"finish", "batch"}

CheckpointsOf(row) ==
    << IsTrue(row.P1_Sent_Encouragement), IsTrue(row.P2_Received_Report),
       IsTrue(row.P3_Sent_Prework) >>

LoggedCheckpointsOf(e) ==
    << IsTrue(e.P1_Encouragement), IsTrue(e.P2_Report), IsTrue(e.P3_Prework) >>

AllReset(row) ==
    /\ row.P1_Sent_Encouragement = "FALSE"
    /\ row.P2_Received_Report = "FALSE"
    /\ row.P3_Sent_Prework = "FALSE"

\* C1: in every finish-cycle transition (log_and_reset or
\* process_universal_cycle) the History row of a mentee is appended before any
\* of that mentee's checkpoint cells is written to FALSE: in the handler's
\* sequence of remote writes, every reset is preceded by the mentee's append.
C1_HistoryBeforeReset ==
    FinishOp =>
        \A j \in 1..Len(op.writes) :
            IsReset(op.writes[j]) =>
                \E i \in 1..(j - 1) : IsHistoryFor(op.writes[i], op.writes[j].r)

\* C2: when a remote write may fail and abort the handler, a finish-cycle
\* transition never leaves a mentee whose checkpoint cells it reset to FALSE
\* without a History row it appended for that mentee.
C2_NoResetWithoutHistory ==
    FinishOp =>
        \A j \in 1..Len(op.writes) :
            IsReset(op.writes[j]) =>
                \E i \in 1..Len(op.writes) : IsHistoryFor(op.writes[i], op.writes[j].r)

\* C3: after log_and_reset(idx, new_last, new_next) with every remote write
\* succeeding, the mentee's remote row has three FALSE checkpoints and the
\* supplied dates, and the History sheet is the old one plus exactly one row,
\* with the mentee's name and the checkpoint values the Local Mirror held
\* before the call.
C3_FinishCyclePost ==
    [][\A idx \in 0..(Len(df) - 1), d \in InputDates, n \in 0..6,
          mid \in BOOLEAN :
        (/\ op'.name = "finish"
         /\ op'.outcome = "ok"
         /\ op'.idx = idx
         /\ log_and_reset(idx, d[1], d[2], n, mid)) =>
            /\ AllReset(remote'[idx + 1])
            /\ remote'[idx + 1].Last_Session_Date = d[1]
            /\ remote'[idx + 1].Next_Session_Date = d[2]
            /\ Len(hist') = Len(hist) + 1
            /\ SubSeq(hist', 1, Len(hist)) = hist
            /\ hist'[Len(hist')].Name = df[idx + 1].Name
            /\ hist'[Len(hist')].Date_Logged = today'
            /\ LoggedCheckpointsOf(hist'[Len(hist')]) = CheckpointsOf(df[idx + 1])
      ]_vars

\* C3 witness: a finish cycle went through for a mentee who held a done
\* checkpoint; the row is reset and the History row records it as done.
C3_Witness ==
    /\ op.name = "finish"
    /\ op.outcome = "ok"
    /\ IsTrue(df[op.idx + 1].P1_Sent_Encouragement)
    /\ AllReset(remote[op.idx + 1])
    /\ hist # <<>>
    /\ IsTrue(hist[Len(hist)].P1_Encouragement)

----------------------------------------------------------------------------
(* The batch *)

\* next_session_date <= today, read as the claim states it
IsDue(row, now) ==
    /\ Parses(row.Next_Session_Date)
    /\ row.Next_Session_Date <= now

\* next_session_date strictly after today
IsFuture(row, now) ==
    /\ Parses(row.Next_Session_Date)
    /\ row.Next_Session_Date > now

DueRows(d, now) == SelectSeq(d, LAMBDA row : IsDue(row, now))

\* the History rows a step appended
Appended == SubSeq(hist', Len(hist) + 1, Len(hist'))

\* a step of process_universal_cycle that returned
BatchReturned ==
    /\ op'.name = "batch"
    /\ op'.outcome = "ok"
    /\ \E n \in 0..(6 * Len(df)) : process_universal_cycle(n)

\* C4: in one invocation of process_universal_cycle that runs to its return,
\* a mentee whose next_session_date is after today is not processed (remote
\* row and Local Mirror record unchanged, no History row, counted as skipped)
\* and a mentee whose next_session_date <= today is processed exactly once
\* (one History row each, in row order, and one count of processed each).
C4_BatchGating ==
    [][BatchReturned =>
        /\ \A i \in 1..Len(df) :
              IsFuture(df[i], today) => (remote'[i] = remote[i] /\ df'[i] = df[i])
        /\ Len(hist') >= Len(hist)
        /\ SubSeq(hist', 1, Len(hist)) = hist
        /\ Len(Appended) = Len(DueRows(df, today))
        /\ \A j \in 1..Len(Appended) : Appended[j].Name = DueRows(df, today)[j].Name
        /\ op'.proc = Len(DueRows(df, today))
        /\ op'.skip = Cardinality({i \in 1..Len(df) : IsFuture(df[i], today)})
                      + Cardinality({i \in 1..Len(df) : ~Parses(df[i].Next_Session_Date)})
      ]_vars

\* C4 witness: a batch returned having processed a due mentee and skipped one
\* whose next session is still ahead.
C4_Witness ==
    /\ op.name = "batch"
    /\ op.outcome = "ok"
    /\ op.proc >= 1
    /\ \E i \in 1..Len(df) : IsFuture(df[i], today) /\ remote[i] = df[i]
    /\ hist # <<>>

\* C5: for every mentee process_universal_cycle processed, the row written is
\* last = old next, next = old next + 7 (old = the Local Mirror record the
\* batch read), so next = last + 7 with three FALSE checkpoints, and the
\* History row logged for it holds the checkpoint values from before the reset.
C5_BatchAdvance ==
    [][BatchReturned =>
        /\ \A i \in 1..Len(df) :
              IsDue(df[i], today) =>
                  /\ remote'[i].Last_Session_Date = df[i].Next_Session_Date
                  /\ remote'[i].Next_Session_Date = df[i].Next_Session_Date + 7
                  /\ remote'[i].Next_Session_Date = remote'[i].Last_Session_Date + 7
                  /\ AllReset(remote'[i])
        /\ Len(Appended) = Len(DueRows(df, today))
        /\ \A j \in 1..Len(Appended) :
              LoggedCheckpointsOf(Appended[j]) = CheckpointsOf(DueRows(df, today)[j])
      ]_vars

\* C5 witness: a batch returned, and a mentee who held a done checkpoint now
\* has a reset remote row one cycle on and a History row recording it as done.
C5_Witness ==
    /\ op.name = "batch"
    /\ op.outcome = "ok"
    /\ \E i \in 1..Len(df) :
          /\ IsDue(df[i], today)
          /\ IsTrue(df[i].P1_Sent_Encouragement)
          /\ AllReset(remote[i])
          /\ remote[i].Last_Session_Date = df[i].Next_Session_Date
          /\ \E j \in 1..Len(hist) :
                hist[j].Name = df[i].Name /\ IsTrue(hist[j].P1_Encouragement)

----------------------------------------------------------------------------
(* The Local Mirror *)

CellOps == {"toggle", "edit", "finish", "batch"}

\* C6: every mutating operation applies its mutation to the Local Mirror
\* before it returns: after a toggle, an edit, a finish cycle or a batch whose
\* remote writes all succeeded, each cell the handler wrote to sheet1 holds
\* the same value in the Local Mirror.
C6_MirrorSynchronous ==
    (op.name \in CellOps /\ op.outcome = "ok") =>
        \A j \in 1..Len(op.writes) :
            LET w == op.writes[j]
            IN  /\ w.kind = "cell" => df[w.r - 1][ColField(w.c)] = w.v
                /\ w.kind = "date" => df[w.r - 1][ColField(w.c)] = w.d

\* a step that loads st.session_state.df anew
ReloadStep ==
    \/ op'.name \in {"main", "refresh"}
    \/ op'.name \in {"add", "delete"} /\ op'.outcome = "ok"

\* C7: toggle_status is local-first: right after any toggle_status call for a
\* checkbox of the page, the Local Mirror holds the negated value of
\* checkpoint k, whether the remote write succeeded or not, and no later step
\* but another toggle or a reload changes a checkpoint of the Local Mirror.
C7_ToggleLocalFirst ==
    [][/\ \A idx \in 0..(page - 1), k \in 1..3, n \in 0..1 :
            (/\ op'.name = "toggle"
             /\ op'.idx = idx
             /\ op'.k = k
             /\ toggle_status(idx, k, n)) =>
                /\ hasDf
                /\ idx < Len(df)
                /\ IsTrue(df'[idx + 1][CheckpointCol(k)])
                      = ~IsTrue(df[idx + 1][CheckpointCol(k)])
       /\ (op'.name # "toggle" /\ ~ReloadStep /\ hasDf') =>
            /\ Len(df') = Len(df)
            /\ \A i \in 1..Len(df) : CheckpointsOf(df'[i]) = CheckpointsOf(df[i])
      ]_vars

\* C8: a remote write failure is non-fatal in every mutating operation: the
\* handler catches it, warns and returns; no error propagates.
C8_FailureNonFatal ==
    op.name \in CellOps => op.outcome # "raised"

----------------------------------------------------------------------------
(* The alert evaluator on its own: one record of every shape, drawn on every
   day of a window, after the first script run *)

\* the last day of the window the session may start on
MaxAlertDay == 15

AlertReportDays ==
    {"Monday", "Tuesday", "Wednesday", "Thursday", "Friday", "Saturday", "Sunday",
     " tuesday ", "FRIDAY", "someday"}

AlertFlags == {"TRUE", "FALSE"}

AlertRows ==
    { [Name |-> "a", Chat_Link |-> "", Last_Session_Date |-> last,
       Next_Session_Date |-> next, Report_Day |-> rep,
       P1_Sent_Encouragement |-> p1, P2_Received_Report |-> p2,
       P3_Sent_Prework |-> p3] :
        last \in 0..6, next \in {BadDate, 9, 13},
        rep \in AlertReportDays, p1 \in AlertFlags, p2 \in AlertFlags,
        p3 \in AlertFlags }

\* a week's cadence from last, whatever the row's own next session is
AlertTables ==
    { << row >> : row \in AlertRows }
    \cup { << [row EXCEPT !.Next_Session_Date = row.Last_Session_Date + CycleDays] >> :
            row \in AlertRows }

InitAlert ==
    /\ remote \in AlertTables
    /\ today \in 0..MaxAlertDay
    /\ hist = <<>>
    /\ hasDf = TRUE
    /\ df = remote
    /\ df_hist = <<>>
    /\ cache = [df |-> remote, df_hist |-> <<>>]
    /\ ops = 0
    /\ alerts = Alerts(remote, today)
    /\ pc = "idle"
    /\ page = Len(remote)
    /\ client = TRUE
    /\ op = OpRec("main", -1, 0, <<>>, "ok", 0, 0)

NextAlert ==
    \/ Rerun
    \/ NewDay

SpecAlert == InitAlert /\ [][NextAlert]_vars

\* the alerts list is the one of the current day and Local Mirror
Rendered == op.name \in {"main", "rerun"}

\* the first day after last_sess that falls on the report weekday
Checkpoint2Deadline(row) ==
    CHOOSE d \in (row.Last_Session_Date + 1)..(row.Last_Session_Date + 7) :
        d % 7 = get_day_number(row.Report_Day)

AlertRule(cp, row, now) ==
    /\ Parses(row.Last_Session_Date)
    /\ Parses(row.Next_Session_Date)
    /\ CASE cp = 1 -> /\ ~IsTrue(row.P1_Sent_Encouragement)
                      /\ now >= row.Last_Session_Date + 1
         [] cp = 2 -> /\ ~IsTrue(row.P2_Received_Report)
                      /\ now > Checkpoint2Deadline(row)
         [] cp = 3 -> /\ ~IsTrue(row.P3_Sent_Prework)
                      /\ now >= row.Next_Session_Date - 1

AlertCount(cp, name) ==
    Cardinality({j \in 1..Len(alerts) : alerts[j].cp = cp /\ alerts[j].name = name})

RuleCount(cp, name) ==
    Cardinality({i \in 1..Len(df) : df[i].Name = name /\ AlertRule(cp, df[i], today)})

\* C9: for every day, every record with parseable dates and every combination
\* of flags, the alerts list holds a checkpoint-1 alert iff checkpoint 1 is not
\* done and today >= last + 1, a checkpoint-2 alert iff checkpoint 2 is not
\* done and today is strictly after the report deadline, and a checkpoint-3
\* alert iff checkpoint 3 is not done and today >= next - 1; each rule on its
\* own.
C9_AlertRules ==
    Rendered =>
        \A cp \in 1..3 : \A i \in 1..Len(df) :
            AlertCount(cp, df[i].Name) = RuleCount(cp, df[i].Name)

\* C9 witness: a page drawn with all three alerts of one record at once.
C9_Witness ==
    /\ op.name = "rerun"
    /\ Len(df) = 1
    /\ Len(alerts) = 3
    /\ today = Checkpoint2Deadline(df[1]) + 1

\* C10 as stated: the report deadline is never before last_session_date and,
\* when next = last + 7, strictly before next_session_date.
C10_DeadlineBeforeNext ==
    \A i \in 1..Len(df) :
        (Parses(df[i].Last_Session_Date) /\ Parses(df[i].Next_Session_Date)) =>
            LET due == ReportDue(df[i].Last_Session_Date, df[i].Report_Day)
            IN  /\ due >= df[i].Last_Session_Date
                /\ df[i].Next_Session_Date = df[i].Last_Session_Date + 7
                     => due < df[i].Next_Session_Date

\* C10 amended: the report deadline is never before last_session_date and,
\* when next = last + 7, never after next_session_date; it is next_session_date
\* itself exactly when last_session_date falls on the report weekday.
C10_DeadlineWithinCycle ==
    \A i \in 1..Len(df) :
        (Parses(df[i].Last_Session_Date) /\ Parses(df[i].Next_Session_Date)) =>
            LET due == ReportDue(df[i].Last_Session_Date, df[i].Report_Day)
            IN  /\ due >= df[i].Last_Session_Date
                /\ df[i].Next_Session_Date = df[i].Last_Session_Date + 7
                     => /\ due <= df[i].Next_Session_Date
                        /\ (due = df[i].Next_Session_Date)
                             <=> (weekday(df[i].Last_Session_Date)
                                    = get_day_number(df[i].Report_Day))

\* C10 witness: a weekly record whose session fell on its report weekday; the
\* page shows the report overdue, due on the day of the next session.
C10_Witness ==
    /\ op.name = "rerun"
    /\ Len(df) = 1
    /\ df[1].Next_Session_Date = df[1].Last_Session_Date + 7
    /\ \E j \in 1..Len(alerts) :
          alerts[j].cp = 2 /\ alerts[j].day = df[1].Next_Session_Date

----------------------------------------------------------------------------
(* The report deadline *)

\* the weekday a Report_Day cell names (Monday = 0), or -1 when it names none
NamedWeekday(rep) ==
    CASE rep \in {"Monday"} -> 0
      [] rep \in {"Tuesday", " tuesday "} -> 1
      [] rep \in {"Wednesday"} -> 2
      [] rep \in {"Thursday"} -> 3
      [] rep \in {"Friday", "FRIDAY"} -> 4
      [] rep \in {"Saturday"} -> 5
      [] rep \in {"Sunday"} -> 6
      [] OTHER -> -1

\* the weekday the deadline must fall on: the named one, Monday when none is
DeadlineWeekday(rep) == IF NamedWeekday(rep) = -1 THEN 0 ELSE NamedWeekday(rep)

\* C11: the checkpoint-2 deadline is last_session_date + d with
\* d = (report weekday index - weekday(last_session_date)) mod 7, and 7 in
\* place of 0: it falls on the report weekday, 1 to 7 days after
\* last_session_date (7 when the session was on the report weekday), and a
\* Report_Day that names no weekday counts as Monday.  Every checkpoint-2
\* alert drawn carries that deadline.
C11_DeadlineFormula ==
    /\ \A i \in 1..Len(df) :
          Parses(df[i].Last_Session_Date) =>
            LET last == df[i].Last_Session_Date
                due == ReportDue(last, df[i].Report_Day)
                d == (DeadlineWeekday(df[i].Report_Day) - weekday(last)) % 7
            IN  /\ due = last + (IF d = 0 THEN 7 ELSE d)
                /\ weekday(due) = DeadlineWeekday(df[i].Report_Day)
                /\ due - last \in 1..7
                /\ (weekday(last) = DeadlineWeekday(df[i].Report_Day)) => due = last + 7
    /\ Rendered =>
          \A j \in 1..Len(alerts) :
              alerts[j].cp = 2 =>
                  \E i \in 1..Len(df) :
                      /\ alerts[j].name = df[i].Name
                      /\ weekday(alerts[j].day) = DeadlineWeekday(df[i].Report_Day)
                      /\ alerts[j].day - df[i].Last_Session_Date \in 1..7

\* C11 witness: a record whose Report_Day names no weekday and whose session
\* was on a Monday; the page shows its report overdue, due the Monday after.
C11_Witness ==
    /\ op.name = "rerun"
    /\ Len(df) = 1
    /\ NamedWeekday(df[1].Report_Day) = -1
    /\ weekday(df[1].Last_Session_Date) = 0
    /\ \E j \in 1..Len(alerts) :
          alerts[j].cp = 2 /\ alerts[j].day = df[1].Last_Session_Date + 7

----------------------------------------------------------------------------
(* Date order *)

\* last_session_date <= next_session_date on a record whose dates parse
DatesOrdered(row) ==
    (Parses(row.Last_Session_Date) /\ Parses(row.Next_Session_Date)) =>
        row.Last_Session_Date <= row.Next_Session_Date

\* C12: in every reachable state, whatever dates the add form, the edit form
\* and the Finish Cycle popover were given, every record of the Local Mirror
\* and of the remote primary sheet has last_session_date <= next_session_date.
C12_LastBeforeNext ==
    /\ \A i \in 1..Len(df) : DatesOrdered(df[i])
    /\ \A i \in 1..Len(remote) : DatesOrdered(remote[i])

----------------------------------------------------------------------------
(* The History sheet *)

\* h2 is h1 with zero or more rows appended
Extends(h2, h1) ==
    /\ Len(h2) >= Len(h1)
    /\ SubSeq(h2, 1, Len(h1)) = h1

\* C13: the History sheet is append-only: every step leaves it as it was or
\* extends it at the end, never changing or removing a row, and it grows only
\* in a step of log_and_reset or process_universal_cycle; toggle, edit, add,
\* delete and refresh leave it unchanged.
C13_HistoryAppendOnly ==
    [][/\ Extends(hist', hist)
       /\ hist' # hist => op'.name \in {"finish", "batch"}
       /\ op'.name \in {"toggle", "edit", "add", "delete", "refresh"} => hist' = hist
      ]_vars

\* C13 witness: a handler other than a finish cycle has run on a History
\* sheet that an earlier finish cycle had written to.
C13_Witness ==
    /\ op.name \in {"toggle", "edit", "add", "delete", "refresh"}
    /\ hist # <<>>

----------------------------------------------------------------------------
(* Row addressing *)

\* the write is addressed to a row of sheet1
RowIndexed(w) == w.kind \in {"cell", "date"}

\* sheet row r holds the mentee of the Local Mirror record at index r - 2
SameMentee(r) ==
    /\ r - HeaderOffset \in 0..(Len(df) - 1)
    /\ r - 1 \in 1..Len(remote)
    /\ remote[r - 1].mentee = df[r - HeaderOffset + 1].mentee

\* C14: a successful add or delete drops the Local Mirror, so that no
\* row-indexed write can be issued before the next run has loaded it in full
\* (it is then the sheet as read, or empty when the read failed), and every
\* row-indexed write of toggle, edit, finish cycle and batch goes to the sheet
\* row that holds the mentee of the Local Mirror record it was issued for.
C14_RowAddressing ==
    [][/\ (op'.name \in {"add", "delete"} /\ op'.outcome = "ok"
           /\ op' # op) => ~hasDf'
       /\ (~hasDf /\ hasDf') => df' \in {remote, <<>>}
       /\ ~hasDf => (remote' = remote /\ hist' = hist)
       /\ op'.name \in CellOps =>
            /\ Len(remote') = Len(remote)
            /\ \A j \in 1..Len(op'.writes) :
                  RowIndexed(op'.writes[j]) => SameMentee(op'.writes[j].r)
      ]_vars

\* C14 witness: after a deletion of the first row, a write was issued for
\* index 0 and reached the row of the mentee who moved up to it.
C14_Witness ==
    /\ op.name \in CellOps
    /\ Len(remote) = 1
    /\ \E j \in 1..Len(op.writes) :
          /\ RowIndexed(op.writes[j])
          /\ op.writes[j].r = HeaderOffset
          /\ remote[1].mentee = 2
          /\ df[1].mentee = 2

----------------------------------------------------------------------------
(* Force Refresh *)

\* the outcomes of load_data_from_cloud in which sheet1 was read
MainRead == {"ok", "hist_fail"}

\* C15: right after a Force Refresh whose read of sheet1 succeeded, the Local
\* Mirror is the remote primary sheet, record for record and cell for cell:
\* whatever the Local Mirror held that the sheet does not (a checkpoint
\* toggled or a detail edited while the remote write failed) is gone, and the
\* sheet itself is untouched.
C15_RefreshWholesale ==
    [][\A rd \in MainRead :
        (op'.name = "refresh" /\ ForceRefresh(rd)) =>
            /\ df' = remote
            /\ remote' = remote
            /\ hist' = hist
      ]_vars

\* C15 witness: a Force Refresh as the second event of a session has left the
\* Local Mirror equal to a sheet of two records.
C15_Witness ==
    /\ op.name = "refresh"
    /\ ops >= 2
    /\ Len(remote) = 2
    /\ df = remote

----------------------------------------------------------------------------
(* The time-to-live of the load *)

\* the time-to-live of the last load has run out and nothing has run since
TtlElapsed ==
    /\ hasDf
    /\ pc = "idle"
    /\ op.name = "expire"
    /\ cache = NoCache

\* C16: once the time-to-live has run out since the last load, the next
\* script run that uses the Local Mirror loads it again from the remote store
\* without a Force Refresh: after that run the cache holds a fresh entry and
\* the Local Mirror is the DataFrame that entry holds.
C16_TtlReload ==
    [][(TtlElapsed /\ op'.name = "rerun") =>
            /\ cache' # NoCache
            /\ df' = cache'.df
      ]_vars

----------------------------------------------------------------------------
(* Malformed dates: sheets of three records, one of them with a date cell
   that does not parse, drawn and batch-processed *)

\* the records with a malformed date: the last session, the next, or both
SoftBadRows ==
    { [NewRow("x", "", d[1], d[2], "Monday") EXCEPT !.P2_Received_Report = p2] :
        d \in {<<BadDate, StartDay>>, <<StartDay - CycleDays, BadDate>>,
               <<BadDate, BadDate>>},
        p2 \in AlertFlags }

\* well-formed records: due today or not, with or without alerts to draw
SoftGoodRows(name) ==
    { [NewRow(name, "", StartDay - CycleDays, next, "Monday")
          EXCEPT !.P1_Sent_Encouragement = p1] :
        next \in {StartDay, StartDay + CycleDays},
        p1 \in AlertFlags }

\* the malformed record first, between the two others, or last
SoftTables ==
    UNION { { << bad, a, b >>, << a, bad, b >>, << a, b, bad >> } :
            bad \in SoftBadRows, a \in SoftGoodRows("a"), b \in SoftGoodRows("b") }

InitSoft ==
    /\ remote \in SoftTables
    /\ today \in {StartDay - 1, StartDay}
    /\ hist = <<>>
    /\ hasDf = TRUE
    /\ df = remote
    /\ df_hist = <<>>
    /\ cache = [df |-> remote, df_hist |-> <<>>]
    /\ ops = 0
    /\ alerts = Alerts(remote, today)
    /\ pc = "idle"
    /\ page = Len(remote)
    /\ client = TRUE
    /\ op = OpRec("main", -1, 0, <<>>, "ok", 0, 0)

NextSoft ==
    \/ Rerun
    \/ NewDay
    \/ \E n \in -1..(6 * Len(df)) : process_universal_cycle(n)
    \/ BatchRerun

SpecSoft == InitSoft /\ [][NextSoft]_vars

\* a record one of whose two dates does not parse
Malformed(row) ==
    \/ row.Last_Session_Date = BadDate
    \/ row.Next_Session_Date = BadDate

\* the Local Mirror without its malformed records
WellFormed(d) == SelectSeq(d, LAMBDA row : ~Malformed(row))

\* the page was drawn from the Local Mirror of this state, on this day
Drawn ==
    /\ pc = "idle"
    /\ \/ op.name \in {"main", "rerun"}
       \/ op.name = "batch" /\ op.outcome = "ok"

\* C17: malformed dates are fail-soft.  On every page drawn, a record whose
\* last or next session date does not parse has no alert, and the alerts list
\* is the one the other records alone would give.  In every batch that
\* returned, a record whose next session date does not parse got no write and
\* was counted as skipped, and every other record whose next session date is
\* not after today was processed: counted, and written last = old next.
C17_MalformedFailSoft ==
    /\ Drawn =>
          /\ \A j \in 1..Len(alerts) : \A i \in 1..Len(df) :
                Malformed(df[i]) => alerts[j].name # df[i].Name
          /\ alerts = Alerts(WellFormed(df), today)
    /\ (op.name = "batch" /\ op.outcome = "ok") =>
          LET bad == {i \in 1..Len(df) : df[i].Next_Session_Date = BadDate}
              due == {i \in 1..Len(df) : /\ df[i].Next_Session_Date # BadDate
                                         /\ df[i].Next_Session_Date <= today}
          IN  /\ \A j \in 1..Len(op.writes) :
                    RowIndexed(op.writes[j]) => (op.writes[j].r - 1) \notin bad
              /\ op.proc = Cardinality(due)
              /\ op.skip = Len(df) - Cardinality(due)
              /\ op.skip >= Cardinality(bad)
              /\ \A i \in due :
                    /\ remote[i].Last_Session_Date = df[i].Next_Session_Date
                    /\ \E j \in 1..Len(hist) : hist[j].Name = df[i].Name

\* C17 witness: a batch returned on a sheet whose middle record has no
\* parseable next session date: it was skipped, the records on either side of
\* it were processed, and the page drawn after it shows alerts.
C17_Witness ==
    /\ op.name = "batch"
    /\ op.outcome = "ok"
    /\ Len(df) = 3
    /\ df[2].Next_Session_Date = BadDate
    /\ remote[2] = df[2]
    /\ op.proc = 2
    /\ op.skip = 1
    /\ pc = "idle"
    /\ alerts # <<>>

----------------------------------------------------------------------------
(* Two batches in a row *)

\* the handler recorded in o wrote to the sheet row of Local Mirror position i
ProcessedBy(o, i) ==
    \E j \in 1..Len(o.writes) :
        RowIndexed(o.writes[j]) /\ o.writes[j].r - 1 = i

\* the mentees the batch recorded in op closed, whose next session on the
\* sheet is now after today
ClosedAhead ==
    {i \in 1..Len(remote) :
        /\ ProcessedBy(op, i)
        /\ remote[i].Next_Session_Date # BadDate
        /\ remote[i].Next_Session_Date > today}

\* C18: when process_universal_cycle has returned and is run again on the
\* same day with nothing in between, a mentee the first run closed and moved
\* to a next session after today is not closed again: the second run appends
\* no History row for that mentee and counts it as skipped.
C18_NoDoubleClose ==
    [][(op.name = "batch" /\ op.outcome = "ok" /\ BatchReturned) =>
            /\ \A i \in ClosedAhead : \A j \in 1..Len(Appended) :
                  Appended[j].Name # remote[i].Name
            /\ op'.skip >= Cardinality(ClosedAhead)
      ]_vars

----------------------------------------------------------------------------
(* The frame of toggle_status *)

\* a stored checkpoint that reads as done: TRUE in any letter case
StoredTrue(v) == v \in {"TRUE", "True", "true"}

\* the value a toggle must leave
Flipped(v) == IF StoredTrue(v) THEN "FALSE" ELSE "TRUE"

\* t is s but for the field f of the row at position i, if at all
SameBut(t, s, i, f) ==
    /\ Len(t) = Len(s)
    /\ \A r \in 1..Len(s) : \A g \in DOMAIN s[r] :
          (r # i \/ g # f) => t[r][g] = s[r][g]

\* C19: toggle_status(idx, k) changes checkpoint k of that record and nothing
\* else (and nothing at all when the Local Mirror holds no record at idx):
\* in the Local Mirror every other field and record is as before; at
\* most one remote write is issued, to that record's row and checkpoint k's
\* column, and the sheet differs in no other cell; the History sheet is
\* unchanged.  A stored value that is TRUE in any letter case becomes FALSE
\* and any other value TRUE, and toggling a TRUE or FALSE checkpoint once more
\* gives back the value it had.
C19_ToggleFrame ==
    [][/\ \A idx \in 0..(Len(df) - 1), k \in 1..3, n \in 0..1 :
        (/\ op'.name = "toggle"
         /\ op'.idx = idx
         /\ op'.k = k
         /\ toggle_status(idx, k, n)) =>
            LET col == CheckpointCol(k)
                old == df[idx + 1][col]
            IN  /\ SameBut(df', df, idx + 1, col)
                /\ df'[idx + 1][col] = Flipped(old)
                /\ Len(op'.writes) <= 1
                /\ \A j \in 1..Len(op'.writes) :
                      /\ op'.writes[j].kind = "cell"
                      /\ op'.writes[j].r = idx + 2
                      /\ op'.writes[j].c = 5 + k
                      /\ op'.writes[j].v = Flipped(old)
                /\ SameBut(remote', remote, idx + 1, col)
                /\ remote'[idx + 1][col] \in {remote[idx + 1][col], Flipped(old)}
                /\ hist' = hist
                /\ old \in {"TRUE", "FALSE"} => ToggleLocal(df', idx, k) = df
       /\ (op'.name = "toggle" /\ op' # op /\ op'.idx >= Len(df)) =>
            /\ op'.writes = <<>>
            /\ df' = df
            /\ remote' = remote
            /\ hist' = hist
      ]_vars

\* C19 witness: the first event of a session toggled a checkpoint stored as
\* lower-case true: it is FALSE in the Local Mirror and on the sheet.
C19_Witness ==
    /\ op.name = "toggle"
    /\ op.outcome = "ok"
    /\ ops = 1
    /\ op.idx = 1
    /\ op.k = 2
    /\ df[2].P2_Received_Report = "FALSE"
    /\ remote[2].P2_Received_Report = "FALSE"

----------------------------------------------------------------------------
(* The counts of the batch *)

\* C20: for every run of process_universal_cycle that returns, the two counts
\* it returns add up to the number of records of the Local Mirror, and the
\* History sheet has grown by exactly processed_count rows.
C20_BatchCounts ==
    [][BatchReturned =>
            /\ op'.proc >= 0
            /\ op'.skip >= 0
            /\ op'.proc + op'.skip = Len(df)
            /\ Len(hist') = Len(hist) + op'.proc
      ]_vars

\* C20 witness: a batch returned 1 processed and 1 skipped on a Local Mirror
\* of two records, the skipped one having no parseable next session date, and
\* the History sheet holds the one row it appended.
C20_Witness ==
    /\ op.name = "batch"
    /\ op.outcome = "ok"
    /\ Len(df) = 2
    /\ op.proc = 1
    /\ op.skip = 1
    /\ \E i \in 1..Len(df) : df[i].Next_Session_Date = BadDate
    /\ Len(hist) = 1

============================================================================
